---- MODULE Spec2Model ----
(***************************************************************************)
(* A model of the NY Housing Explorer script (src/CS230_final.py): the     *)
(* cached loader load_data, the early exit, the sidebar filters, the       *)
(* price/borough filter and the three pages (Data, Charts, Map), run top   *)
(* to bottom on every interaction, as Streamlit reruns a script.           *)
(*                                                                         *)
(* Conventions.                                                            *)
(*  - A DataFrame is [columns |-> set of column names, rows |-> sequence of *)
(*    rows]; a row is a function from the column names and "index" (the    *)
(*    DataFrame index label) to cell values.                               *)
(*  - Text cells are sequences of one-character strings, so that the       *)
(*    regular-expression search of load_data is computed, not assumed.     *)
(*  - Prices are fixed-point numbers counted in 1/PriceScale units, so     *)
(*    that int() at line 61 truncates.                                     *)
(*  - Means, medians and ratios are exact fractions [num, den]; 0/0 is     *)
(*    NaN and 1/0 is infinity.                                             *)
(*  - A missing cell (an empty CSV field, NaN) is NaN in a numeric column  *)
(*    and the empty text NoText in a text column.                          *)
(***************************************************************************)
EXTENDS Integers, Sequences, FiniteSets, TLC

VARIABLES file, cache, reads, writes, run, pc, errorShown, names, data,
          selected_borough, price_threshold, filtered, page, view

vars == <<file, cache, reads, writes, run, pc, errorShown, names, data,
          selected_borough, price_threshold, filtered, page, view>>

-----------------------------------------------------------------------------
(* Bounds of the model *)

\* Largest number of rows of a CSV file in the general specification.
MaxRows == 2
\* Number of script runs (the first run and the reruns) that are followed.
MaxRuns == 2
\* Sub-unit resolution of a price: a price p stands for p / PriceScale.
PriceScale == 2
\* Largest number of text fragments a sublocality is assembled from.
MaxChunks == 2
\* Number of rows of the tables of the ranking specification.
RankRows == 10
\* Largest count of the dominant property type in the breakdown specification.
MaxTypeCount == 21

-----------------------------------------------------------------------------
(* Program constants *)

\* head(5), lines 80 and 85
TopN == 5
\* np.histogram(..., bins=30), line 101
HistBins == 30
\* the 0.05 share of lines 113-114, in percent
SharePct == 5

\* A missing cell of a numeric column (NaN); no price or coordinate of the
\* model's files has this value.
NaN == -1
\* A missing cell of a text column.
NoText == <<>>
\* NaN as the result of a computation: 0 / 0, the mean of no values.
NaNFrac == [num |-> 0, den |-> 0]
\* IEEE infinity, the result of x / 0 for x > 0.
Inf == [num |-> 1, den |-> 0]
\* no entry in the st.cache_data store
NotCached == [present |-> FALSE, value |-> [columns |-> {}, rows |-> <<>>], error |-> FALSE]
\* the default argument of load_data, line 20
DefaultPath == "NY-House-Dataset.csv"
Paths == {DefaultPath}
\* the state of a path that does not resolve
NoFile == [exists |-> FALSE, header |-> {}, rows |-> <<>>]
\* the value of a Python name that is not bound in this run (see names)
Unbound == "Unbound"

-----------------------------------------------------------------------------
(* Text *)

Manhattan == <<"M","a","n","h","a","t","t","a","n">>
Brooklyn == <<"B","r","o","o","k","l","y","n">>
Queens == <<"Q","u","e","e","n","s">>
TheBronx == <<"T","h","e"," ","B","r","o","n","x">>
StatenIsland == <<"S","t","a","t","e","n"," ","I","s","l","a","n","d">>

\* The alternatives of the pattern of line 34, in the pattern's order.
BoroughPattern == <<Manhattan, Brooklyn, Queens, TheBronx, StatenIsland>>

\* The five recognized names.
Boroughs == {BoroughPattern[j] : j \in DOMAIN BoroughPattern}

\* The selectbox's first option, line 59, and the label of line 115.
All == <<"A","l","l">>
Other == <<"O","t","h","e","r">>
Condo == <<"C","o","n","d","o">>
Coop == <<"C","o","-","o","p">>

SetMin(S) == CHOOSE x \in S : \A y \in S : x <= y
SetMax(S) == CHOOSE x \in S : \A y \in S : x >= y

\* Whether word w occurs in text s at position i (case-sensitive, exact).
MatchAt(s, i, w) ==
    /\ i + Len(w) - 1 <= Len(s)
    /\ \A k \in 1..Len(w) : s[i + k - 1] = w[k]

\* The alternatives of the pattern that match at position i.
AltsAt(s, i) == {j \in 1..Len(BoroughPattern) : MatchAt(s, i, BoroughPattern[j])}

\* A mutated search: the alternatives are tried one after the other over the
\* whole text, instead of all of them at each position.
ExtractByAlternative(s) ==
    LET hit == {j \in 1..Len(BoroughPattern) :
                   \E i \in 1..Len(s) : MatchAt(s, i, BoroughPattern[j])}
    IN  IF hit = {} THEN NoText ELSE BoroughPattern[SetMin(hit)]

\* Series.str.extract with one group: re.search scans the positions from the
\* left and, at each, tries the alternatives in order; the match is the
\* text matched; a missing or non-matching text gives a missing cell.
StrExtract(s) ==
    LET pos == {i \in 1..Len(s) : AltsAt(s, i) # {}}
    IN  IF pos = {} THEN NoText
        ELSE BoroughPattern[SetMin(AltsAt(s, SetMin(pos)))]

\* str.lower on the column names that occur in the model's files.
Lower(c) ==
    CASE c = "PRICE" -> "price"
      [] c = "LATITUDE" -> "latitude"
      [] c = "LONGITUDE" -> "longitude"
      [] c = "SUBLOCALITY" -> "sublocality"
      [] c = "TYPE" -> "type"
      [] c = "PROPERTYSQFT" -> "propertysqft"
      [] OTHER -> c

-----------------------------------------------------------------------------
(* Numbers *)

\* int() of a non-negative fixed-point number: truncation to a whole number.
TruncInt(p) == (p \div PriceScale) * PriceScale

\* Series division, cell by cell: NaN propagates, x / 0 is inf (0 / 0 is NaN).
Divide(a, b) ==
    IF a = NaN \/ b = NaN THEN NaNFrac
    ELSE IF b = 0 THEN (IF a = 0 THEN NaNFrac ELSE Inf)
    ELSE [num |-> a, den |-> b]

RECURSIVE SumSeq(_)
SumSeq(s) == IF s = <<>> THEN 0 ELSE Head(s) + SumSeq(Tail(s))

\* The values of s in ascending order.
RECURSIVE SortedInts(_)
SortedInts(s) ==
    IF s = <<>> THEN <<>>
    ELSE LET m == SetMin({s[i] : i \in DOMAIN s})
             k == SetMin({i \in DOMAIN s : s[i] = m})
         IN  <<m>> \o SortedInts(SubSeq(s, 1, k - 1) \o SubSeq(s, k + 1, Len(s)))

\* The values of a numeric Series that are not missing (skipna).
Present(s) == SelectSeq(s, LAMBDA x : x # NaN)

\* Series.mean(): the mean of the present values, NaN when there is none.
Mean(s) ==
    IF Present(s) = <<>> THEN NaNFrac
    ELSE [num |-> SumSeq(Present(s)), den |-> Len(Present(s))]

\* Series.median(): NaN on no values, the middle value, or the mean of the
\* two middle values.
Median(s) ==
    IF Present(s) = <<>> THEN NaNFrac
    ELSE LET v == SortedInts(Present(s))
             n == Len(v)
         IN  IF n % 2 = 1 THEN [num |-> v[(n + 1) \div 2], den |-> 1]
             ELSE [num |-> v[n \div 2] + v[n \div 2 + 1], den |-> 2]

-----------------------------------------------------------------------------
(* DataFrames *)

\* pd.DataFrame(): no columns, no rows.
EmptyFrame == [columns |-> {}, rows |-> <<>>]

\* A mutated emptiness test that never reports an empty table.
NeverEmpty(df) == FALSE

\* DataFrame.empty: some axis has length 0.
IsEmpty(df) == df.columns = {} \/ Len(df.rows) = 0

\* The column of a DataFrame as a sequence of cells.
Column(df, c) == [i \in DOMAIN df.rows |-> df.rows[i][c]]

\* The index labels of the rows of a DataFrame.
Labels(df) == {df.rows[i]["index"] : i \in DOMAIN df.rows}

\* pd.read_csv: the file's header and rows, under a RangeIndex from 0.
ReadCsv(f) ==
    [columns |-> f.header,
     rows |-> [i \in DOMAIN f.rows |-> ("index" :> (i - 1)) @@ f.rows[i]]]

\* df.rename(columns=str.lower)
RenameLower(df) ==
    [columns |-> {Lower(c) : c \in df.columns},
     rows |-> [i \in DOMAIN df.rows |->
                 [c \in {Lower(k) : k \in DOMAIN df.rows[i]} |->
                     df.rows[i][CHOOSE k \in DOMAIN df.rows[i] : Lower(k) = c]]]]

\* df[name] = cells, a Series aligned with the rows of df.
AssignColumn(df, name, cells) ==
    [columns |-> df.columns \cup {name},
     rows |-> [i \in DOMAIN df.rows |-> (name :> cells[i]) @@ df.rows[i]]]

\* A mutated list of key fields that forgets the borough.
KeyFieldsNoBorough == {"price", "latitude", "longitude"}

\* The key fields of line 41.
KeyFields == {"price", "latitude", "longitude", "borough"}

\* The columns that hold text; the others hold numbers.
TextColumns == {"sublocality", "type", "borough"}

\* Whether the cell v of column c is missing.
IsNa(c, v) == IF c \in TextColumns THEN v = NoText ELSE v = NaN

\* df.dropna(subset=KeyFields): the rows with none of these cells missing.
DropNa(df) ==
    [df EXCEPT !.rows =
        SelectSeq(df.rows, LAMBDA r : \A c \in KeyFields : ~ IsNa(c, r[c]))]

\* Lines 31-42 of load_data, after a successful read. A missing column
\* raises KeyError; a sublocality column with rows but no text in any of them
\* is read as a numeric column, on which .str raises AttributeError. Either
\* is an outcome with no value.
Derive(raw) ==
    LET df1 == RenameLower(raw)
        df2 == AssignColumn(df1, "borough",
                   [i \in DOMAIN df1.rows |-> StrExtract(df1.rows[i]["sublocality"])])
        df3 == IF "propertysqft" \in df2.columns
               THEN AssignColumn(df2, "sqft", Column(df2, "propertysqft"))
               ELSE df2
        df4 == AssignColumn(df3, "price_per_sqft",
                   [i \in DOMAIN df3.rows |->
                       Divide(df3.rows[i]["price"], df3.rows[i]["sqft"])])
    IN  IF "sublocality" \notin df1.columns THEN [outcome |-> "KeyError"]
        ELSE IF /\ Len(df1.rows) > 0
                /\ \A i \in DOMAIN df1.rows : df1.rows[i]["sublocality"] = NoText
             THEN [outcome |-> "AttributeError"]
        ELSE IF ~ {"price", "sqft"} \subseteq df3.columns THEN [outcome |-> "KeyError"]
        ELSE IF ~ KeyFields \subseteq df4.columns THEN [outcome |-> "KeyError"]
        ELSE [outcome |-> "return", value |-> DropNa(df4), error |-> FALSE]

\* The body of load_data, lines 25-42.
LoadBody(f) ==
    IF ~ f.exists
    THEN [outcome |-> "return", value |-> EmptyFrame, error |-> TRUE]
    ELSE Derive(ReadCsv(f))

-----------------------------------------------------------------------------
(* The filter, lines 64-68 *)

\* A mutated filter that joins the two tests with "or".
FilterRowsEither(df, threshold, borough) ==
    [df EXCEPT !.rows = SelectSeq(df.rows,
        LAMBDA r : r["price"] <= threshold \/ (borough # All /\ r["borough"] = borough))]

\* A mutated filter that keeps the rows priced at the threshold or above.
FilterRowsFloor(df, threshold, borough) ==
    [df EXCEPT !.rows = SelectSeq(df.rows,
        LAMBDA r : r["price"] >= threshold /\ (borough = All \/ r["borough"] = borough))]

\* data[data['price'] <= price_threshold], then, unless the selection is
\* 'All', filtered[filtered['borough'] == selected_borough].
FilterRows(df, threshold, borough) ==
    LET first == [df EXCEPT !.rows =
                     SelectSeq(df.rows, LAMBDA r : r["price"] <= threshold)]
    IN  IF borough # All
        THEN [first EXCEPT !.rows =
                 SelectSeq(first.rows, LAMBDA r : r["borough"] = borough)]
        ELSE first

\* The options of the selectbox, line 59.
BoroughOptions(df) == {All} \cup {df.rows[i]["borough"] : i \in DOMAIN df.rows}

\* The values of the slider, line 62: the whole numbers from int(min) to
\* int(max) of the price column.
SliderValues(df) ==
    LET prices == {df.rows[i]["price"] : i \in DOMAIN df.rows}
        min_price == TruncInt(SetMin(prices))
        max_price == TruncInt(SetMax(prices))
    IN  {k * PriceScale : k \in (min_price \div PriceScale)..(max_price \div PriceScale)}

-----------------------------------------------------------------------------
(* The Data page, lines 74-93 *)

\* sort_values('price', ascending=asc) over the rows S, as the set of the
\* orders a sort may return: the sort is not a stable one, so rows of equal
\* price come in any order.
RECURSIVE SortValues(_, _)
SortValues(S, asc) ==
    IF S = {} THEN {<<>>}
    ELSE LET keys == {r["price"] : r \in S}
             k == IF asc THEN SetMin(keys) ELSE SetMax(keys)
         IN  UNION {{<<r>> \o t : t \in SortValues(S \ {r}, asc)} :
                        r \in {q \in S : q["price"] = k}}

\* A mutated head(n) that takes one row more.
HeadRowsOneMore(s, n) == SubSeq(s, 1, IF Len(s) < n + 1 THEN Len(s) ELSE n + 1)

\* head(n)
HeadRows(s, n) == SubSeq(s, 1, IF Len(s) < n THEN Len(s) ELSE n)

Range(s) == {s[i] : i \in DOMAIN s}

\* compute_price_stats, lines 45-50
compute_price_stats(df, borough) ==
    LET subset == IF borough = All THEN df
                  ELSE [df EXCEPT !.rows =
                           SelectSeq(df.rows, LAMBDA r : r["borough"] = borough)]
    IN  <<Mean(Column(subset, "price")), Median(Column(subset, "price"))>>

-----------------------------------------------------------------------------
(* The Charts page, lines 95-119 *)

\* np.histogram(values, bins)[0]: equal-width buckets over [min, max], the
\* last one closed; [min - 0.5, max + 0.5] when min = max; zeros on no
\* values. Coordinates are doubled to keep the half units whole.
Histogram(values, bins) ==
    IF values = <<>> THEN [k \in 1..bins |-> 0]
    ELSE LET vs == Range(values)
             lo == IF SetMin(vs) = SetMax(vs) THEN 2 * SetMin(vs) - 1 ELSE 2 * SetMin(vs)
             hi == IF SetMin(vs) = SetMax(vs) THEN 2 * SetMax(vs) + 1 ELSE 2 * SetMax(vs)
             bucket(v) == LET b == ((2 * v - lo) * bins) \div (hi - lo)
                          IN  IF b >= bins THEN bins ELSE b + 1
         IN  [k \in 1..bins |-> Cardinality({i \in DOMAIN values : bucket(values[i]) = k})]

\* groupby('borough')['price'].mean(): borough -> mean price
GroupMeans(df) ==
    [b \in {df.rows[i]["borough"] : i \in DOMAIN df.rows} |->
        Mean(Column([df EXCEPT !.rows = SelectSeq(df.rows, LAMBDA r : r["borough"] = b)],
                    "price"))]

\* .sort_values() of the group means: the orders, ascending by mean, that
\* the sort may return.
RECURSIVE SortMeans(_, _)
SortMeans(m, S) ==
    IF S = {} THEN {<<>>}
    ELSE UNION {{<<b>> \o t : t \in SortMeans(m, S \ {b})} :
                   b \in {c \in S : \A d \in S :
                             m[c].num * m[d].den <= m[d].num * m[c].den}}

\* value_counts(): category -> count, missing values left out.
ValueCounts(cells) ==
    [c \in Range(cells) \ {NoText} |-> Cardinality({i \in DOMAIN cells : cells[i] = c})]

RECURSIVE SumOver(_, _)
SumOver(f, S) ==
    IF S = {} THEN 0
    ELSE LET x == CHOOSE y \in S : TRUE IN f[x] + SumOver(f, S \ {x})

\* The total of a Series of counts.
Total(f) == SumOver(f, DOMAIN f)

\* Lines 111-115: the categories with a share of at least 5 %, then the sum
\* of the others stored under the label 'Other'.
CategoryBreakdown(cells) ==
    LET type_counts == ValueCounts(cells)
        total == Total(type_counts)
        keep == {c \in DOMAIN type_counts : type_counts[c] * 100 >= SharePct * total}
        main == [c \in keep |-> type_counts[c]]
        other_count == SumOver(type_counts, DOMAIN type_counts \ keep)
    IN  (Other :> other_count) @@ main

-----------------------------------------------------------------------------
(* The CSV files the script is run on *)

HeaderUpper == {"PRICE", "LATITUDE", "LONGITUDE", "SUBLOCALITY", "TYPE", "PROPERTYSQFT"}
HeaderLower == {Lower(c) : c \in HeaderUpper}
\* The optional column is absent.
HeaderNoSqft == HeaderUpper \ {"PROPERTYSQFT"}

RawRow(p, lat, lon, sub, ty, sq) ==
    [price |-> p, latitude |-> lat, longitude |-> lon, sublocality |-> sub,
     type |-> ty, propertysqft |-> sq]

\* A file with header h whose i-th line holds the cells of rows[i].
CsvFile(h, rows) ==
    [exists |-> TRUE, header |-> h, rows |-> [i \in DOMAIN rows |-> [c \in h |-> rows[i][Lower(c)]]]]

CommaNY == <<",", " ", "N", "Y">>
UnknownPlace == <<"U","n","k","n","o","w","n"," ","P","l","a","c","e">>
LowerManhattan == <<"m","a","n","h","a","t","t","a","n">>
BronxCounty == <<"B","r","o","n","x"," ","C","o","u","n","t","y">>
NewYork == <<"N","e","w"," ","Y","o","r","k">>
The == <<"T","h","e"," ">>

BaseRow == RawRow(PriceScale, 40, -74, Manhattan, Condo, 1)

\* Prices 1, 1 + 1/PriceScale and 2 + 1/PriceScale.
Prices == {PriceScale, PriceScale + 1, 2 * PriceScale + 1}

\* The rows of the general files: complete rows of two boroughs and three
\* prices, and the base row with one cell changed.
GeneralRows ==
    {RawRow(p, 40, -74, s, Condo, 1) : p \in Prices, s \in {Manhattan, Queens \o CommaNY}}
    \cup {[BaseRow EXCEPT !.type = t] : t \in {Other, NoText}}
    \cup {[BaseRow EXCEPT !.price = NaN], [BaseRow EXCEPT !.latitude = NaN],
          [BaseRow EXCEPT !.longitude = NaN], [BaseRow EXCEPT !.sublocality = NoText],
          [BaseRow EXCEPT !.sublocality = UnknownPlace]}
    \cup {[BaseRow EXCEPT !.propertysqft = q] : q \in {NaN, 0}}

SeqsUpTo(S, n) == UNION {[1..k -> S] : k \in 0..n}

\* No file, a file without the optional column, and a lower-case header:
\* members of every family of files.
CommonFiles ==
    {NoFile, CsvFile(HeaderNoSqft, <<BaseRow>>), CsvFile(HeaderLower, <<BaseRow>>)}

GeneralFiles ==
    CommonFiles
    \cup {CsvFile(h, t) : h \in {HeaderUpper, HeaderNoSqft}, t \in SeqsUpTo(GeneralRows, MaxRows)}
    \cup {CsvFile(HeaderLower, <<r>>) : r \in GeneralRows}

\* Sublocality texts: up to MaxChunks fragments, side by side.
Chunks ==
    {Manhattan, Brooklyn, Queens, TheBronx, StatenIsland, CommaNY, UnknownPlace,
     LowerManhattan, BronxCounty, NewYork, The}

RECURSIVE Texts(_)
Texts(n) ==
    IF n = 0 THEN {<<>>}
    ELSE Texts(n - 1) \cup {t \o c : t \in Texts(n - 1), c \in Chunks}

BoroughFiles ==
    CommonFiles
    \cup {CsvFile(HeaderUpper, <<[BaseRow EXCEPT !.sublocality = s]>>) : s \in Texts(MaxChunks)}

\* Tables of n rows of pairwise distinct whole prices: row i has the price
\* 1 + ((a * i + c) mod n) for a stride a coprime to n, and every third row
\* is in Queens when q holds.
Coprime(a, n) == \A d \in 2..a : ~ (a % d = 0 /\ n % d = 0)

RankTable(n, a, c, q) ==
    [i \in 1..n |->
        [BaseRow EXCEPT !.price = PriceScale * (1 + ((a * i + c) % n)),
                        !.sublocality = IF q /\ i % 3 = 0 THEN Queens ELSE Manhattan]]

RankFiles ==
    CommonFiles
    \cup {CsvFile(HeaderUpper, RankTable(k[1], k[2], k[3], k[4])) :
            k \in {x \in {RankRows, RankRows + 1} \X {1, 3, 7} \X {0, 1, 4} \X BOOLEAN :
                      Coprime(x[2], x[1])}}

\* Tables given by the count of each property type: k rows Condo, then at
\* most one row each of Co-op, Other and no type; prices are distinct.
TypeColumn(k, coop, other, none) ==
    [i \in 1..k |-> Condo] \o (IF coop THEN <<Coop>> ELSE <<>>)
    \o (IF other THEN <<Other>> ELSE <<>>) \o (IF none THEN <<NoText>> ELSE <<>>)

BreakdownTable(types) ==
    [i \in DOMAIN types |->
        [BaseRow EXCEPT !.price = PriceScale + i - 1, !.type = types[i]]]

BreakdownFiles ==
    CommonFiles
    \cup {CsvFile(HeaderUpper, BreakdownTable(TypeColumn(k, coop, other, none))) :
            k \in 0..MaxTypeCount, coop \in BOOLEAN, other \in BOOLEAN, none \in BOOLEAN}

-----------------------------------------------------------------------------
(* The script, one action per step of a run *)

InitOn(files) ==
    /\ file \in files
    /\ cache = [p \in Paths |-> NotCached]
    /\ names = {}
    /\ reads = [p \in Paths |-> 0]
    /\ writes = [p \in Paths |-> 0]
    /\ run = 1
    /\ pc = "load"
    /\ errorShown = FALSE
    /\ data = Unbound
    /\ selected_borough = Unbound
    /\ price_threshold = Unbound
    /\ filtered = Unbound
    /\ page = Unbound
    /\ view = Unbound

\* The names the rest of the run binds, left as they are.
NoFilterYet == UNCHANGED <<selected_borough, price_threshold, filtered, page, view>>

\* An assignment to a name of the script.
Bind(new) == names' = names \cup new

\* Line 53 on a cache hit: st.cache_data returns the stored value and replays
\* the elements (st.error) the call had drawn; the body does not run.
LoadCached ==
    /\ pc = "load"
    /\ cache[DefaultPath].present
    /\ data' = cache[DefaultPath].value
    /\ Bind({"data"})
    /\ errorShown' = cache[DefaultPath].error
    /\ pc' = "check_empty"
    /\ UNCHANGED <<file, cache, reads, writes, run>>
    /\ NoFilterYet

\* Line 53 on a cache miss, the body returning: the result is stored.
LoadReturn(f) ==
    LET res == LoadBody(f)
    IN  /\ res.outcome = "return"
        /\ cache' = [cache EXCEPT ![DefaultPath] =
                        [present |-> TRUE, value |-> res.value, error |-> res.error]]
        /\ writes' = [writes EXCEPT ![DefaultPath] = @ + 1]
        /\ reads' = [reads EXCEPT ![DefaultPath] = @ + 1]
        /\ data' = res.value
        /\ Bind({"data"})
        /\ errorShown' = res.error
        /\ pc' = "check_empty"
        /\ UNCHANGED <<file, run>>
        /\ NoFilterYet

\* Lines 25-29: the path does not resolve.
LoadNotFound ==
    /\ pc = "load"
    /\ ~ cache[DefaultPath].present
    /\ ~ file.exists
    /\ LoadReturn(file)

\* Lines 25-42: the file is read and cleaned.
LoadOk ==
    /\ pc = "load"
    /\ ~ cache[DefaultPath].present
    /\ file.exists
    /\ LoadReturn(file)

\* Lines 25-41 raising KeyError or AttributeError: the exception leaves
\* load_data and ends the run; st.cache_data stores nothing for it.
LoadRaises ==
    /\ pc = "load"
    /\ ~ cache[DefaultPath].present
    /\ LoadBody(file).outcome # "return"
    /\ reads' = [reads EXCEPT ![DefaultPath] = @ + 1]
    /\ pc' = "crashed"
    /\ UNCHANGED <<file, cache, writes, run, errorShown, names, data>>
    /\ NoFilterYet

\* Lines 54-55: st.stop() on an empty table.
EarlyExit ==
    /\ pc = "check_empty"
    /\ IsEmpty(data)
    /\ pc' = "stopped"
    /\ UNCHANGED <<file, cache, reads, writes, run, errorShown, names, data>>
    /\ NoFilterYet

\* Lines 57-62: the selectbox and the slider return the user's choices. A
\* table without the columns read here ends the run with an exception.
SidebarFilters ==
    /\ pc = "check_empty"
    /\ ~ IsEmpty(data)
    /\ IF {"borough", "price"} \subseteq data.columns /\ Len(data.rows) > 0
       THEN \E b \in BoroughOptions(data), t \in SliderValues(data) :
               /\ selected_borough' = b
               /\ price_threshold' = t
               /\ Bind({"selected_borough", "price_threshold"})
               /\ pc' = "filter"
       ELSE /\ pc' = "crashed"
            /\ UNCHANGED <<names, selected_borough, price_threshold>>
    /\ UNCHANGED <<file, cache, reads, writes, run, errorShown, data, filtered, page, view>>

\* Line 62 when int(min) = int(max) of the price column: depending on the
\* Streamlit release, st.slider either accepts the one-value range (the case
\* of SidebarFilters) or raises StreamlitAPIException, which ends the run.
SliderRangeError ==
    /\ pc = "check_empty"
    /\ ~ IsEmpty(data)
    /\ {"borough", "price"} \subseteq data.columns
    /\ Len(data.rows) > 0
    /\ Cardinality(SliderValues(data)) = 1
    /\ pc' = "crashed"
    /\ UNCHANGED <<file, cache, reads, writes, run, errorShown, names, data>>
    /\ NoFilterYet

\* Lines 64-68.
ApplyFilter ==
    /\ pc = "filter"
    /\ filtered' = FilterRows(data, price_threshold, selected_borough)
    /\ Bind({"filtered"})
    /\ pc' = "page"
    /\ UNCHANGED <<file, cache, reads, writes, run, errorShown, data,
                   selected_borough, price_threshold, page, view>>

Rendered ==
    /\ pc' = "done"
    /\ Bind({"page", "view"})
    /\ UNCHANGED <<file, cache, reads, writes, run, errorShown, data,
                   selected_borough, price_threshold, filtered>>

\* The columns shown by st.table, lines 81 and 86.
Shown(rows) ==
    [i \in DOMAIN rows |->
        [c \in {"index", "borough", "type", "price", "sqft", "latitude", "longitude"} |->
            rows[i][c]]]

\* Lines 72 and 75-93: the radio returns "Data".
PageData ==
    /\ pc = "page"
    /\ page' = "Data"
    /\ \E desc \in SortValues(Range(filtered.rows), FALSE),
          asc \in SortValues(Range(filtered.rows), TRUE) :
          LET stats == compute_price_stats(filtered, selected_borough)
          IN  view' = [top5 |-> Shown(HeadRows(desc, TopN)),
                       cheapest5 |-> Shown(HeadRows(asc, TopN)),
                       avg |-> stats[1], med |-> stats[2],
                       total |-> Len(filtered.rows)]
    /\ Rendered

\* Lines 72 and 96-119: the radio returns "Charts".
PageCharts ==
    /\ pc = "page"
    /\ page' = "Charts"
    /\ LET means == GroupMeans(filtered)
       IN  \E order \in SortMeans(means, DOMAIN means) :
              view' = [hist_values |-> Histogram(Column(filtered, "price"), HistBins),
                       avg_by_borough |-> [i \in DOMAIN order |-> <<order[i], means[order[i]]>>],
                       main |-> CategoryBreakdown(Column(filtered, "type"))]
    /\ Rendered

\* Lines 72 and 122-160: the radio returns "Map".
PageMap ==
    /\ pc = "page"
    /\ page' = "Map"
    /\ view' = [mid_lat |-> Mean(Column(filtered, "latitude")),
                mid_lon |-> Mean(Column(filtered, "longitude")),
                layer |-> Labels(filtered)]
    /\ Rendered

\* A widget change or a reload: Streamlit runs the script again from the
\* top; the cache_data store outlives the run, the script's names do not.
Rerun ==
    /\ pc \in {"done", "stopped", "crashed"}
    /\ run < MaxRuns
    /\ run' = run + 1
    /\ pc' = "load"
    /\ errorShown' = FALSE
    /\ names' = {}
    /\ data' = Unbound
    /\ selected_borough' = Unbound
    /\ price_threshold' = Unbound
    /\ filtered' = Unbound
    /\ page' = Unbound
    /\ view' = Unbound
    /\ UNCHANGED <<file, cache, reads, writes>>

Next ==
    \/ LoadCached
    \/ LoadNotFound
    \/ LoadOk
    \/ LoadRaises
    \/ EarlyExit
    \/ SidebarFilters
    \/ SliderRangeError
    \/ ApplyFilter
    \/ PageData
    \/ PageCharts
    \/ PageMap
    \/ Rerun

Init == InitOn(GeneralFiles)
Spec == Init /\ [][Next]_vars

InitBorough == InitOn(BoroughFiles)
SpecBorough == InitBorough /\ [][Next]_vars

InitRank == InitOn(RankFiles)
SpecRank == InitRank /\ [][Next]_vars

InitBreakdown == InitOn(BreakdownFiles)
SpecBreakdown == InitBreakdown /\ [][Next]_vars

-----------------------------------------------------------------------------
(* Properties *)

\* The cell of column c (lower-case name) in line i of the file.
RawCell(f, i, c) == f.rows[i][CHOOSE k \in f.header : Lower(k) = c]

\* The recognized names that occur in text s, and where each first occurs.
Occurring(s) == {w \in Boroughs : \E i \in 1..Len(s) : MatchAt(s, i, w)}
FirstPos(s, w) == SetMin({i \in 1..Len(s) : MatchAt(s, i, w)})

\* Whether the prices of the rows of df are pairwise distinct.
DistinctPrices(df) ==
    \A i, j \in DOMAIN df.rows : i # j => df.rows[i]["price"] # df.rows[j]["price"]

\* The price thresholds the relational properties range over: every
\* fixed-point value from 0 to one above the largest price of the table.
ThresholdsOver(df) ==
    0..(SetMax({df.rows[i]["price"] : i \in DOMAIN df.rows} \cup {0}) + 1)

\* C1: every row of the cleaned table returned by load_data has a price, a
\* latitude, a longitude and a borough, and the borough is one of the five
\* recognized names.
C1_CleanedRowsComplete ==
    "data" \in names =>
        \A i \in DOMAIN data.rows :
            /\ data.rows[i]["price"] # NaN
            /\ data.rows[i]["latitude"] # NaN
            /\ data.rows[i]["longitude"] # NaN
            /\ data.rows[i]["borough"] # NoText
            /\ data.rows[i]["borough"] \in Boroughs

\* C1's case: load_data returned a table after dropping some row of the file.
C1_Witness ==
    /\ "data" \in names
    /\ Len(data.rows) >= 1
    /\ Len(data.rows) < Len(file.rows)

\* C2: the working subset is exactly the rows of the cleaned table, in their
\* order, with price <= threshold (inclusive) and, unless the selection is
\* All, borough = selection: one conjunction.
C2_FilterIsConjunction ==
    "filtered" \in names =>
        /\ filtered.columns = data.columns
        /\ filtered.rows =
              SelectSeq(data.rows,
                  LAMBDA r : /\ r["price"] <= price_threshold
                             /\ (selected_borough = All \/ r["borough"] = selected_borough))

\* C2's case: a borough is selected, a row priced exactly at the threshold
\* is kept, and a row within the price ceiling is left out for its borough.
C2_Witness ==
    /\ "filtered" \in names
    /\ selected_borough # All
    /\ \E i \in DOMAIN filtered.rows : filtered.rows[i]["price"] = price_threshold
    /\ \E i \in DOMAIN data.rows :
          /\ data.rows[i]["price"] <= price_threshold
          /\ data.rows[i]["borough"] # selected_borough

\* C3: the counts of the category breakdown, the "Other" bucket included,
\* sum to the number of rows of the working subset.
C3_BreakdownSumsToRowCount ==
    (pc = "done" /\ page = "Charts") => Total(view.main) = Len(filtered.rows)

\* C3's case: the Charts page has merged a category of a share below 5 %
\* into the "Other" bucket.
C3_Witness ==
    /\ pc = "done"
    /\ page = "Charts"
    /\ \E i \in DOMAIN filtered.rows :
          /\ filtered.rows[i]["type"] # NoText
          /\ filtered.rows[i]["type"] \notin DOMAIN view.main
    /\ view.main[Other] >= 1

\* C4: on a file that has the required columns, load_data does not raise
\* but returns a table (data is bound once the load is over); without a
\* propertysqft column the table has no sqft column and every price_per_sqft
\* is undefined.
C4_DerivationNeverFails ==
    (file.exists /\ pc # "load"
        /\ {"price", "latitude", "longitude", "sublocality", "type"}
              \subseteq {Lower(c) : c \in file.header}) =>
        /\ "data" \in names
        /\ ("propertysqft" \notin {Lower(c) : c \in file.header} =>
              /\ "sqft" \notin data.columns
              /\ \A i \in DOMAIN data.rows : data.rows[i]["price_per_sqft"] = NaNFrac)

\* C5: the mean and median of the price (Data page) and the centroid (Map
\* page) are computed only on a working subset that has rows.
C5_StatsOnlyOnNonEmpty ==
    (pc = "done" /\ page \in {"Data", "Map"}) => Len(filtered.rows) > 0

\* C6: when the path does not resolve, load_data reports the error and
\* returns an empty table, and the run stops there: only data is bound, no
\* filter, aggregation or page has run.
C6_NotFoundHalts ==
    (~ file.exists /\ pc # "load") =>
        /\ pc \in {"check_empty", "stopped"}
        /\ errorShown
        /\ names = {"data"}
        /\ data = EmptyFrame

\* C6's case: the run on a missing file has been stopped, on a rerun too.
C6_Witness ==
    /\ ~ file.exists
    /\ pc = "stopped"
    /\ run > 1

\* C7: the file of a path is read at most once and its cache entry written
\* at most once; every load after the first returns the stored result.
C7_LoadedOncePerPath ==
    \A p \in Paths :
        /\ reads[p] <= 1
        /\ writes[p] <= 1
        /\ (run > 1 /\ pc # "load") => ("data" \in names /\ data = cache[p].value)

\* C8: for thresholds t1 <= t2 and the selected borough, the working subset
\* for t1 is a subset, as a set of rows, of the working subset for t2; the
\* subset in hand is the one for the slider's threshold.
C8_FilterMonotone ==
    "filtered" \in names =>
        LET Working(t) == IF t = price_threshold THEN filtered
                          ELSE FilterRows(data, t, selected_borough)
        IN  \A t1, t2 \in ThresholdsOver(data) :
                t1 <= t2 => Range(Working(t1).rows) \subseteq Range(Working(t2).rows)

\* C8's case: the working subset has rows and a larger threshold adds some.
C8_Witness ==
    /\ "filtered" \in names
    /\ filtered.rows # <<>>
    /\ \E t \in ThresholdsOver(data) :
          /\ t > price_threshold
          /\ Range(filtered.rows) # Range(FilterRows(data, t, selected_borough).rows)

\* C9: the borough of a row of the cleaned table is the recognized name that
\* occurs first in the row's sublocality, and a row whose sublocality holds
\* none of the five names is not in the cleaned table.
C9_FirstOccurringName ==
    ("data" \in names /\ file.exists) =>
        \A i \in DOMAIN file.rows :
            LET s == RawCell(file, i, "sublocality")
            IN  /\ Occurring(s) = {} => (i - 1) \notin Labels(data)
                /\ \A k \in DOMAIN data.rows :
                      data.rows[k]["index"] = i - 1 =>
                          /\ data.rows[k]["borough"] \in Occurring(s)
                          /\ \A w \in Occurring(s) :
                                FirstPos(s, data.rows[k]["borough"]) <= FirstPos(s, w)

\* C9's case: a row of the cleaned table whose sublocality holds two
\* recognized names, the first of them later in the pattern than the other.
C9_Witness ==
    /\ "data" \in names
    /\ \E k \in DOMAIN data.rows :
          LET s == data.rows[k]["sublocality"]
          IN  /\ Cardinality(Occurring(s)) >= 2
              /\ \E j \in DOMAIN BoroughPattern :
                    /\ BoroughPattern[j] \in Occurring(s)
                    /\ BoroughPattern[j] # data.rows[k]["borough"]
                    /\ \A m \in DOMAIN BoroughPattern :
                          BoroughPattern[m] = data.rows[k]["borough"] => j < m

\* C10: on a working subset of at least 10 rows of pairwise distinct prices,
\* the 5 most expensive and the 5 cheapest rows are 5 rows each and share
\* no row.
C10_TopAndCheapestDisjoint ==
    (pc = "done" /\ page = "Data" /\ Len(filtered.rows) >= 10 /\ DistinctPrices(filtered)) =>
        LET top == {view.top5[i]["index"] : i \in DOMAIN view.top5}
            cheap == {view.cheapest5[i]["index"] : i \in DOMAIN view.cheapest5}
        IN  /\ Len(view.top5) = 5
            /\ Len(view.cheapest5) = 5
            /\ Cardinality(top) = 5
            /\ Cardinality(cheap) = 5
            /\ top \cap cheap = {}

\* C10's case: the Data page has ranked a subset of 10 or more rows of
\* distinct prices, narrowed by a borough selection.
C10_Witness ==
    /\ pc = "done"
    /\ page = "Data"
    /\ Len(filtered.rows) >= 10
    /\ DistinctPrices(filtered)
    /\ Len(filtered.rows) < Len(data.rows)

====
